---- MODULE Spec2Model ----
(***************************************************************************)
(* The drag-and-drop uploader of topics/react/dnd-uploader: the component  *)
(* A11yUploader (items state and its button handlers), the hook            *)
(* useUploadQueue (pump, the running counter, the completion callbacks)    *)
(* and the transfer simulator mockUpload (interval timer, abort listener). *)
(*                                                                         *)
(* Scheduling.  JavaScript runs one task at a time and drains the promise  *)
(* microtasks a task leaves behind before the next task starts, so a timer *)
(* tick or a click together with the then/catch/finally callbacks it       *)
(* triggers is one atomic step.  A state update issued by setItems is      *)
(* applied before the next task.  What React and the browser schedule as   *)
(* later tasks are separate steps: the useEffect that calls pump after the *)
(* items changed (EffectPump), the setTimeout(pump, 0) of a completion     *)
(* (TimeoutPump) and the next tick of an interval timer (Tick).            *)
(*                                                                         *)
(* The caller's commands are the buttons the component renders: cancel is  *)
(* offered for queued and uploading items, retry for error items, remove   *)
(* for every item, start-all and cancel-all always.                        *)
(*                                                                         *)
(* Beside the uploader, three other examples of the collection are         *)
(* modelled on their own: mockUpload as a function of its signal, the hook *)
(* useSearch of search-autocomplete with its Combobox, and withRetry of    *)
(* error-boundary.  Each has its own variable and its own specification.   *)
(***************************************************************************)
EXTENDS Integers, Sequences, FiniteSets

VARIABLES
  items,        \* useState<Item[]>: the collection, in list order
  alert,        \* useState<string | null>: the assertive message (rejected files)
  running,      \* useRef(0): the scheduler's in-flight counter
  transfers,    \* per AbortController created, in order: the id of the item it was created for
  intervals,    \* the mockUpload calls not yet settled, each with its live
                \* setInterval timer: [ctrl, totalMs, elapsed]
  timeouts,     \* number of pending setTimeout(pump, 0)
  effectPending,\* items changed since useEffect last ran pump
  nextId,       \* number of ids uid() has handed out
  queuedOrder,  \* history: ids of the queued items in the order they became queued
  call,         \* one mockUpload invocation observed on its own: the signal it
                \* was given, its timer, its canceled flag, how its promise settled
  search,       \* useSearch: its props, its state (data, loading, error), abortRef
                \* and the fetcher calls not yet settled
  retry,        \* one withRetry call: its options, the attempt it is at, what it
                \* has called so far and how it settled
  combo         \* Combobox: the options prop, activeIndex, open

vars == <<items, alert, running, transfers, intervals, timeouts, effectPending,
          nextId, queuedOrder, call, search, retry, combo>>

\* what the uploader leaves alone: the other examples of the collection
aside == <<search, retry, combo>>

\* the state of the component and its queue
queueVars == <<items, alert, running, transfers, intervals, timeouts,
               effectPending, nextId, queuedOrder>>

------------------------------------------------------------------------------
(* Bounds of the model *)

\* ids uid() hands out, i.e. items ever created
MaxIds == 4
\* transfers ever started plus items waiting to start
MaxStarts == 4
\* files in one drop / file-input selection
MaxBatch == 2
\* items ever created in the specification that observes every timer tick
MaxFineIds == 2
\* periods of 80 ms for which one mockUpload invocation is observed
MaxTicks == 25
\* photos in the largest selection of a whole folder
MaxFolder == 11
\* items ever created in the specification of file picking
MaxPickIds == 11
\* fetcher calls useSearch issues
MaxRequests == 3
\* the largest maxAttempts given to withRetry
MaxAttempts == 3
\* options the Combobox is given at most
MaxOptions == 5

------------------------------------------------------------------------------
(* Program constants *)

CONCURRENCY == 3
MAX_FILES == 10
MAX_SIZE_BYTES == 5 * 1024 * 1024
ACCEPT == {"image/png", "image/jpeg", "image/webp"}

\* an optional field (error, serverUrl, abortCtrl) that is undefined
Undefined == "undefined"
NoCtrl == 0
NoUrl == 0
NetworkError == "network error"

\* the statuses of types.ts; idle is declared and never assigned
UploadStatus == {"idle", "queued", "uploading", "success", "error", "canceled"}

------------------------------------------------------------------------------
(* Files the user can pick *)

File(n, s, t, m) == [name |-> n, size |-> s, type |-> t, lastModified |-> m]

Files ==
  { File("a.png", 1024, "image/png", 1),
    File("b.jpg", 2048, "image/jpeg", 1),
    File("c.webp", 4096, "image/webp", 2),
    File("d.png", 1024, "image/png", 2),
    File("e.gif", 1024, "image/gif", 1),
    File("f.png", MAX_SIZE_BYTES + 1, "image/png", 1) }

Batches == UNION { [1..n -> Files] : n \in 1..MaxBatch }

\* the k-th photo of the caller's folder: valid, and no duplicate of another
Photo(k) == File("photo.png", 1024, "image/png", k)
\* a selection of the next n photos not yet picked
NextPhotos(n) == [k \in 1..n |-> Photo(nextId + k)]

\* a selection of the first n photos of the folder, picked before or not
Folder(n) == [k \in 1..n |-> Photo(k)]
\* a valid file, one of a type that is not accepted, one that is too large
PickFiles ==
  { File("a.png", 1024, "image/png", 1),
    File("e.gif", 1024, "image/gif", 1),
    File("f.png", MAX_SIZE_BYTES + 1, "image/png", 1) }
\* what the user drops or selects: one or a few files of any kind, the same
\* file twice among them, or the first photos of the folder, as many as the
\* list takes or more
PickBatches ==
  UNION { [1..n -> PickFiles] : n \in 1..MaxBatch }
    \cup {Folder(n) : n \in (MaxFolder - 1)..MaxFolder}

\* totalMs = 800 + floor(random * 1200)
TotalMsChoices == {800}
\* instants (ms after the start of a transfer) at which the interval timer is
\* observed to fire, multiples of its 80 ms period: the tick that settles the
\* transfer alone, or a tick half way as well
Clock == {800}
FineClock == {400, 800}

------------------------------------------------------------------------------
(* Helpers *)

Min(a, b) == IF a < b THEN a ELSE b
Max(a, b) == IF a > b THEN a ELSE b

Ids(its) == {its[i].id : i \in DOMAIN its}
ItemOf(its, id) == its[CHOOSE i \in DOMAIN its : its[i].id = id]
StatusOf(its, id) == IF id \in Ids(its) THEN ItemOf(its, id).status ELSE "absent"
Count(its, st) == Cardinality({i \in DOMAIN its : its[i].status = st})

------------------------------------------------------------------------------
(* utils.ts *)

isDuplicate(a, b) ==
  a.name = b.name /\ a.size = b.size /\ a.lastModified = b.lastModified

\* null when the file is accepted, else the reason
validateFile(file) ==
  IF file.type \notin ACCEPT THEN "type"
  ELSE IF file.size > MAX_SIZE_BYTES THEN "size"
  ELSE "null"

------------------------------------------------------------------------------
(* History: the order in which the currently queued items became queued.   *)
(* Items that become queued in the same step are taken in list order.      *)

QueuedAfter(old, before, after) ==
  LET still(id) == StatusOf(after, id) = "queued"
      fresh(it) == it.status = "queued" /\ StatusOf(before, it.id) # "queued"
      added == SelectSeq(after, fresh)
  IN SelectSeq(old, still) \o [i \in DOMAIN added |-> added[i].id]

------------------------------------------------------------------------------
(* A11yUploader: the updaters of the button handlers, one item at a time *)

\* pushFiles: the item created for an accepted file
NewItem(id, file) ==
  [id |-> id, file |-> file, progress |-> 0, status |-> "queued",
   error |-> Undefined, serverUrl |-> NoUrl, abortCtrl |-> NoCtrl]

\* a cancel that never calls abort()
AbortsNever(it) == FALSE

\* cancelItem and cancelAll call abort() on an uploading item's controller
Aborts(it) == it.status = "uploading" /\ it.abortCtrl # NoCtrl

\* cancelItem: the item with the given id
CancelOne(it) == [it EXCEPT !.status = "canceled"]

\* a retry that re-queues and leaves the progress bar where it was
RetryKeepsProgress(it) == [it EXCEPT !.status = "queued", !.error = Undefined]

\* retryItem: the item with the given id
RetryOne(it) == [it EXCEPT !.status = "queued", !.progress = 0, !.error = Undefined]

\* a start-all that re-queues every item, finished ones too
StartAllEverything(it) ==
  [it EXCEPT !.status = "queued", !.progress = 0, !.error = Undefined]

\* a start-all that re-queues and leaves the progress bar where it was
StartAllKeepsProgress(it) ==
  IF it.status \in {"idle", "error", "canceled"}
  THEN [it EXCEPT !.status = "queued", !.error = Undefined]
  ELSE it

\* startAll: every item
StartAllOne(it) ==
  IF it.status \in {"idle", "error", "canceled"}
  THEN [it EXCEPT !.status = "queued", !.progress = 0, !.error = Undefined]
  ELSE it

\* a cancelAll that also clears the progress of what it cancels
CancelAllOneResetsProgress(it) ==
  IF it.status = "success" THEN it
  ELSE [it EXCEPT !.status = "canceled", !.progress = 0]

\* a cancelAll without the exception for success
CancelAllOneEvenSuccess(it) == [it EXCEPT !.status = "canceled"]

\* cancelAll: every item
CancelAllOne(it) ==
  [it EXCEPT !.status = IF it.status = "success" THEN it.status ELSE "canceled"]

------------------------------------------------------------------------------
(* useUploadQueue: the updaters of the transfer callbacks *)

\* a progress callback that is not keyed by the item's id
OnProgressAll(cur, id, p) ==
  [i \in DOMAIN cur |->
     IF cur[i].status = "uploading" THEN [cur[i] EXCEPT !.progress = p] ELSE cur[i]]

\* onProgress: cur.map(x => x.id === it.id ? {...x, progress: p} : x)
OnProgress(cur, id, p) ==
  [i \in DOMAIN cur |-> IF cur[i].id = id THEN [cur[i] EXCEPT !.progress = p] ELSE cur[i]]

\* .then: status success, serverUrl, progress 100
OnResolved(cur, id, url) ==
  [i \in DOMAIN cur |->
     IF cur[i].id = id
     THEN [cur[i] EXCEPT !.status = "success", !.serverUrl = url, !.progress = 100]
     ELSE cur[i]]

\* a catch that records every rejection as a failure
OnRejectedAbortIsError(cur, id, isAbort) ==
  [i \in DOMAIN cur |->
     IF cur[i].id = id
     THEN [cur[i] EXCEPT !.status = "error", !.error = NetworkError]
     ELSE cur[i]]

\* a catch that takes the item of a rejected transfer out of the list
OnRejectedDropsItem(cur, id, isAbort) ==
  LET other(x) == x.id # id
  IN SelectSeq(cur, other)

\* .catch: canceled without message for an AbortError, else error with the message
OnRejected(cur, id, isAbort) ==
  [i \in DOMAIN cur |->
     IF cur[i].id = id
     THEN [cur[i] EXCEPT !.status = IF isAbort THEN "canceled" ELSE "error",
                         !.error = IF isAbort THEN Undefined ELSE NetworkError]
     ELSE cur[i]]

\* the .catch updaters of the transfers in cs, all rejected with AbortError
RECURSIVE OnAborted(_, _)
OnAborted(cur, cs) ==
  IF cs = {} THEN cur
  ELSE LET c == CHOOSE x \in cs : TRUE
       IN OnAborted(OnRejected(cur, transfers[c], TRUE), cs \ {c})

------------------------------------------------------------------------------
(* mockUpload *)

\* pct = Math.min(99, Math.floor((elapsed / totalMs) * 100))
Pct(elapsed, totalMs) == Min(99, (elapsed * 100) \div totalMs)

\* onAbort runs for a transfer that has not settled: the abort listener of a
\* settled transfer finds the promise settled and the timer cleared
Pending(c) == \E r \in intervals : r.ctrl = c

\* the controllers abort() is called on when the items at the indices hit are
\* cancelled, and that still have a transfer to reject
AbortedBy(its, hit) ==
  {c \in {its[i].abortCtrl : i \in {j \in hit : Aborts(its[j])}} : Pending(c)}

\* clearInterval(timer), and the promise settles
Timers == {r.ctrl : r \in intervals}
TimerOf(c) == CHOOSE r \in intervals : r.ctrl = c
ClearInterval(cs) == {r \in intervals : r.ctrl \notin cs}

------------------------------------------------------------------------------
(* useUploadQueue.pump *)

\* a pump that offers every slot whatever is in flight
AvailableIgnoringRunning(r) == CONCURRENCY

\* a pump that admits one item per call
AvailableAtMostOne(r) == Min(1, CONCURRENCY - r)

\* a pump that always keeps one slot back
AvailableOneLess(r) == CONCURRENCY - r - 1

\* const available = CONCURRENCY - running.current
Available(r) == CONCURRENCY - r

\* a pump that starts whatever has not finished
StartableNotTerminal(it) == it.status \notin {"success", "error", "canceled"}
\* a pump that takes cancelled items back
StartableOrCanceled(it) == it.status \in {"queued", "canceled"}
\* a pump that retries failed items by itself
StartableOrError(it) == it.status \in {"queued", "error"}

\* if (it.status === "queued")
Startable(it) == it.status = "queued"

\* a scan from the end of the list
RECURSIVE ScanDown(_, _, _, _, _)
ScanDown(next, i, started, available, base) ==
  IF ~(i >= 1 /\ started < available) THEN [next |-> next, started |-> started]
  ELSE IF next[i].status = "queued"
       THEN ScanDown([next EXCEPT ![i].abortCtrl = base + started + 1,
                                  ![i].status = "uploading"],
                     i - 1, started + 1, available, base)
       ELSE ScanDown(next, i - 1, started, available, base)
ScanFromEnd(next, i, started, available, base) ==
  ScanDown(next, Len(next), started, available, base)

\* the scan loop over next from index i: the items after the loop and the
\* number of transfers it started; the k-th start creates controller base + k
RECURSIVE Scan(_, _, _, _, _)
Scan(next, i, started, available, base) ==
  IF ~(i <= Len(next) /\ started < available) THEN [next |-> next, started |-> started]
  ELSE IF Startable(next[i])
       THEN Scan([next EXCEPT ![i].abortCtrl = base + started + 1,
                              ![i].status = "uploading"],
                 i + 1, started + 1, available, base)
       ELSE Scan(next, i + 1, started, available, base)

\* the item a controller was created for
StartedItem(next, c) == (CHOOSE i \in DOMAIN next : next[i].abortCtrl = c)

\* what one call of pump makes of the items its, with r transfers counted in
\* running and base controllers created so far
Pumped(its, r, base) ==
  IF r >= CONCURRENCY THEN [next |-> its, started |-> 0]
  ELSE Scan(its, 1, 0, Available(r), base)

\* a finally that gives back two slots per transfer
ReleasedTwice(r, n) == r - 2 * n

\* a finally that never gives the slot back
ReleasedNever(r, n) == r

\* running.current-- in finally, once per settled transfer
Released(r, n) == r - n

\* pump(): returns at once when no slot is free, else runs the updater, which
\* starts one mockUpload per admitted item (a fresh controller, a random
\* totalMs, an interval timer) and counts it in running
pump(effect) ==
  IF running >= CONCURRENCY
  THEN /\ UNCHANGED <<items, running, transfers, intervals, queuedOrder>>
       /\ effectPending' = effect
  ELSE LET r == Pumped(items, running, Len(transfers))
           new == (Len(transfers) + 1)..(Len(transfers) + r.started)
       IN /\ items' = r.next
          /\ running' = running + r.started
          /\ transfers' = transfers \o
               [k \in 1..r.started |->
                  r.next[StartedItem(r.next, Len(transfers) + k)].id]
          /\ \E totals \in [new -> TotalMsChoices] :
               intervals' = intervals \cup
                 {[ctrl |-> c, totalMs |-> totals[c], elapsed |-> 0] : c \in new}
          /\ queuedOrder' = QueuedAfter(queuedOrder, items, items')
          /\ effectPending' = TRUE

\* useEffect(() => pump(), [items, pump])
EffectPump ==
  /\ effectPending
  /\ pump(FALSE)
  /\ UNCHANGED <<alert, timeouts, nextId, call, aside>>

\* setTimeout(pump, 0) of a completion fires
TimeoutPump ==
  /\ timeouts > 0
  /\ timeouts' = timeouts - 1
  /\ pump(effectPending)
  /\ UNCHANGED <<alert, nextId, call, aside>>

------------------------------------------------------------------------------
(* mockUpload: the interval timer fires for transfer c at instant t *)

Tick(c, t, fail) ==
  /\ c \in Timers
  /\ t > TimerOf(c).elapsed
  /\ LET totalMs == TimerOf(c).totalMs
         id == transfers[c]
         progressed == OnProgress(items, id, Pct(t, totalMs))
     IN IF t >= totalMs
        THEN \* the transfer settles; then/catch and finally run as microtasks
             /\ items' = IF fail THEN OnRejected(progressed, id, FALSE)
                         ELSE OnResolved(OnProgress(progressed, id, 100), id, c)
             /\ intervals' = ClearInterval({c})
             /\ running' = Released(running, 1)
             /\ timeouts' = timeouts + 1
             /\ UNCHANGED transfers
        ELSE /\ ~fail
             /\ items' = progressed
             /\ intervals' = ClearInterval({c}) \cup {[TimerOf(c) EXCEPT !.elapsed = t]}
             /\ UNCHANGED <<transfers, running, timeouts>>
  /\ queuedOrder' = QueuedAfter(queuedOrder, items, items')
  /\ effectPending' = TRUE
  /\ UNCHANGED <<alert, nextId, call, aside>>

------------------------------------------------------------------------------
(* mockUpload, one invocation on its own: the caller passes no signal, a     *)
(* signal that is not aborted, or one that is aborted already.               *)

\* signal?: AbortSignal
Signals == {"none", "live", "aborted"}
\* totalMs = 800 + floor(random * 1200): the least, one between, the greatest
CallTotalMs == {800, 1200, 1999}
\* the instants the 80 ms interval timer can fire at
CallClock == {80 * k : k \in 1..MaxTicks}
\* const timer is read by onAbort before its declaration has run: the read
\* throws a ReferenceError where the build keeps const (the temporal dead
\* zone), and yields undefined where the build compiles const to var
TimerBeforeInit == {"tdz", "undefined"}
\* onProgress has not been called
NoReport == 0 - 1

\* mockUpload has not been called
NoCall ==
  [signal |-> "none", totalMs |-> 0, elapsed |-> 0, timer |-> "undefined",
   canceled |-> FALSE, outcome |-> "idle", progress |-> NoReport,
   abortedPending |-> FALSE, late |-> FALSE]

\* onAbort: canceled = true; clearInterval(timer); reject(AbortError).
\* A throw inside the promise executor rejects the promise with what was
\* thrown; settling a settled promise does nothing.
onAbort(c) ==
  IF c.timer = "tdz"
  THEN [c EXCEPT !.canceled = TRUE, !.outcome = "ReferenceError"]
  ELSE [c EXCEPT !.canceled = TRUE,
                 !.timer = IF @ = "live" THEN "cleared" ELSE @,
                 !.outcome = IF @ = "pending" THEN "AbortError" ELSE @]

\* mockUpload(file, onProgress, signal): the promise executor
Invoke(sig, total, early) ==
  /\ call.outcome = "idle"
  /\ LET c0 == [signal |-> sig, totalMs |-> total, elapsed |-> 0,
                timer |-> early, canceled |-> FALSE, outcome |-> "pending",
                progress |-> NoReport, abortedPending |-> sig = "aborted",
                late |-> FALSE]
     IN call' = IF sig = "aborted"
                THEN onAbort(c0)                 \* return onAbort()
                ELSE [c0 EXCEPT !.timer = "live"] \* setInterval
  /\ UNCHANGED <<queueVars, aside>>

\* the caller aborts the controller of the signal: the abort listener runs
AbortCall ==
  /\ call.outcome # "idle"
  /\ call.signal = "live"
  /\ call' = onAbort([call EXCEPT !.signal = "aborted",
                                  !.abortedPending = (call.outcome = "pending")])
  /\ UNCHANGED <<queueVars, aside>>

\* the interval callback at instant t
CallTick(t, fail) ==
  /\ call.timer = "live"
  /\ t > call.elapsed
  /\ fail => t >= call.totalMs
  /\ call' =
       IF call.canceled THEN call
       ELSE LET reported == [call EXCEPT !.elapsed = t,
                                         !.progress = Pct(t, call.totalMs),
                                         !.late = @ \/ call.signal = "aborted"]
            IN IF t >= call.totalMs
               THEN IF fail
                    THEN [reported EXCEPT !.timer = "cleared", !.outcome = "Error"]
                    ELSE [reported EXCEPT !.timer = "cleared", !.progress = 100,
                                          !.outcome = "resolved"]
               ELSE reported
  /\ UNCHANGED <<queueVars, aside>>

------------------------------------------------------------------------------
(* useSearch(query, fetcher, {minChars, enabled})                            *)

\* { minChars = 2 }
MinChars == 2

\* the characters of a query; Blank is white space
Blank == " "
\* the queries the input can hold
Queries ==
  { <<>>, <<"a">>, <<"a", "b">>, <<"a", "b", Blank>>, <<Blank, "a">>, <<"b", "a">> }

\* query.trim()
RECURSIVE TrimStart(_)
TrimStart(q) ==
  IF q # <<>> /\ Head(q) = Blank THEN TrimStart(Tail(q)) ELSE q
RECURSIVE TrimEnd(_)
TrimEnd(q) ==
  IF q # <<>> /\ q[Len(q)] = Blank THEN TrimEnd(SubSeq(q, 1, Len(q) - 1)) ELSE q
Trim(q) == TrimEnd(TrimStart(q))

\* no controller: abortRef.current is null, or the effect returned no cleanup
NoController == 0
\* useState<SearchItem[]>([]): no results; from is the fetcher call that wrote data
NoData == [q |-> <<>>, from |-> 0]
\* useState<string | null>(null)
NoError == "null"
SearchError == "search error"

\* after the first render: query "" is too short, the effect has reset the state
Mounted ==
  [query |-> <<>>, enabled |-> TRUE, data |-> NoData, loading |-> FALSE,
   error |-> NoError, issued |-> 0, abortRef |-> NoController,
   cleanup |-> NoController, requests |-> {}]

\* !enabled || q.length < minChars
Ineligible(q, en) == ~en \/ Len(Trim(q)) < MinChars

\* controller.abort() on the controllers cs: their signals are aborted
AbortRequests(reqs, cs) ==
  {[r EXCEPT !.aborted = @ \/ r.ctrl \in cs] : r \in reqs}

\* query or enabled changed: the cleanup of the last effect runs, then the effect
Render(q, en) ==
  /\ <<q, en>> # <<search.query, search.enabled>>
  /\ LET cleaned == AbortRequests(search.requests, {search.cleanup})
         ctrl == search.issued + 1
     IN IF Ineligible(q, en)
        THEN search' = [search EXCEPT !.query = q, !.enabled = en,
                                      !.data = NoData, !.loading = FALSE,
                                      !.error = NoError,
                                      !.cleanup = NoController,
                                      !.requests = cleaned]
        ELSE /\ search.issued < MaxRequests
             /\ \E honours \in BOOLEAN :
                  search' = [search EXCEPT
                    !.query = q, !.enabled = en,
                    !.loading = TRUE, !.error = NoError,
                    !.issued = ctrl, !.abortRef = ctrl, !.cleanup = ctrl,
                    !.requests =
                       AbortRequests(cleaned, {search.abortRef})
                         \cup {[ctrl |-> ctrl, q |-> Trim(q), aborted |-> FALSE,
                                honours |-> honours]}]
  /\ UNCHANGED <<queueVars, call, retry, combo>>

\* .finally(() => setLoading(false))
LoadingAfter(r, loading) == FALSE

\* the promise of fetcher call c settles: a fetcher that honours its signal
\* rejects an aborted call with AbortError; any other call resolves (ok) or
\* rejects with an error
Settle(c, ok) ==
  /\ \E r \in search.requests :
       /\ r.ctrl = c
       /\ search' =
            [search EXCEPT
               !.requests = @ \ {r},
               !.loading = LoadingAfter(r, search.loading),
               !.data = IF r.aborted /\ r.honours THEN @
                        ELSE IF ok THEN [q |-> r.q, from |-> c]
                        ELSE NoData,
               !.error = IF (r.aborted /\ r.honours) \/ ok THEN @
                         ELSE SearchError]
  /\ UNCHANGED <<queueVars, call, retry, combo>>

------------------------------------------------------------------------------
(* withRetry(fn, options)                                                    *)

\* what fn can throw: a BaseError of severity error or fatal, a plain Error,
\* a string
Thrown ==
  { [class |-> "BaseError", severity |-> "error"],
    [class |-> "BaseError", severity |-> "fatal"],
    [class |-> "Error", severity |-> "none"],
    [class |-> "string", severity |-> "none"] }

\* let lastError: BaseError | null = null
NullError == [class |-> "null", severity |-> "none"]

\* normalizeError: a BaseError as it is, anything else wrapped in an
\* ApplicationError (a BaseError of severity error)
normalizeError(e) ==
  IF e.class = "BaseError" THEN e
  ELSE [class |-> "BaseError", severity |-> "error"]

\* options.shouldRetry: the default, or a caller's predicate
Policies == {"default", "never", "firstOnly"}
shouldRetry(policy, error, attempt) ==
  CASE policy = "default" -> error.class = "BaseError" /\ error.severity # "fatal"
    [] policy = "never" -> FALSE
    [] policy = "firstOnly" -> attempt < 2

\* delayMs = 1000; exponential: delayMs * 2^(attempt - 1), linear: delayMs * attempt
DelayMs == 1000
Delay(backoff, attempt) ==
  IF backoff = "exponential" THEN DelayMs * 2 ^ (attempt - 1) ELSE DelayMs * attempt

\* withRetry has not been called
NoRetry ==
  [phase |-> "idle", maxAttempts |-> 0, policy |-> "default",
   onRetry |-> FALSE, backoff |-> "exponential", attempt |-> 0, calls |-> 0,
   retried |-> <<>>, delay |-> 0, lastError |-> NullError,
   settled |-> NullError]

\* withRetry(fn, options) up to the first await: attempt 1 calls fn; with no
\* attempt to make the loop is skipped and lastError, still null, is thrown
CallWithRetry(maxAttempts, policy, onRetry, backoff) ==
  /\ retry.phase = "idle"
  /\ retry' =
       IF 1 <= maxAttempts
       THEN [NoRetry EXCEPT !.phase = "calling", !.maxAttempts = maxAttempts,
                            !.policy = policy, !.onRetry = onRetry,
                            !.backoff = backoff, !.attempt = 1, !.calls = 1]
       ELSE [NoRetry EXCEPT !.phase = "rejected", !.maxAttempts = maxAttempts,
                            !.policy = policy, !.onRetry = onRetry,
                            !.backoff = backoff, !.attempt = 1]
  /\ UNCHANGED <<queueVars, call, search, combo>>

\* await fn() returns
FnResolves ==
  /\ retry.phase = "calling"
  /\ retry' = [retry EXCEPT !.phase = "resolved"]
  /\ UNCHANGED <<queueVars, call, search, combo>>

\* await fn() throws e: the catch block
FnRejects(e) ==
  /\ retry.phase = "calling"
  /\ LET lastError == normalizeError(e)
     IN retry' =
          IF retry.attempt = retry.maxAttempts
             \/ ~shouldRetry(retry.policy, lastError, retry.attempt)
          THEN [retry EXCEPT !.phase = "rejected", !.lastError = lastError,
                             !.settled = lastError]
          ELSE [retry EXCEPT !.phase = "waiting", !.lastError = lastError,
                             !.retried = IF retry.onRetry
                                         THEN Append(@, retry.attempt) ELSE @,
                             !.delay = Delay(retry.backoff, retry.attempt)]
  /\ UNCHANGED <<queueVars, call, search, combo>>

\* the delay has passed: attempt++ and the next fn()
DelayPasses ==
  /\ retry.phase = "waiting"
  /\ retry' = [retry EXCEPT !.phase = "calling", !.attempt = @ + 1,
                            !.calls = @ + 1]
  /\ UNCHANGED <<queueVars, call, search, combo>>

------------------------------------------------------------------------------
(* Combobox                                                                  *)

\* useState(-1): no option is active
NoneActive == 0 - 1
\* the number NaN, which compares false with every number
NaN == 0 - 1000

\* JavaScript's a % n: the sign of a; NaN for n = 0 or a = NaN
JsRem(a, n) ==
  IF a = NaN \/ n = 0 THEN NaN
  ELSE IF a >= 0 THEN a % n ELSE 0 - ((0 - a) % n)
\* a + b in JavaScript numbers
JsAdd(a, b) == IF a = NaN THEN NaN ELSE a + b

\* the first render: no options, nothing active, list closed
Closed ==
  [options |-> 0, activeIndex |-> NoneActive, open |-> FALSE,
   selected |-> NoneActive, mounted |-> TRUE]

\* rendering reads options[activeIndex].id when activeIndex >= 0: with no
\* such option the render throws and React unmounts the component
Renders(c) == ~(c.activeIndex # NaN /\ c.activeIndex >= c.options)
Rendered(c) == [c EXCEPT !.mounted = Renders(c)]

\* the parent passes another options list, of length n
OptionsChange(n) ==
  /\ combo.mounted
  /\ n # combo.options
  /\ combo' = Rendered([combo EXCEPT !.options = n])
  /\ UNCHANGED <<queueVars, call, search, retry>>

\* onKeyDown, ArrowDown: setActiveIndex((i) => (i + 1) % options.length)
ArrowDown ==
  /\ combo.mounted
  /\ combo' = Rendered([combo EXCEPT
                 !.activeIndex = JsRem(JsAdd(@, 1), combo.options)])
  /\ UNCHANGED <<queueVars, call, search, retry>>

\* onKeyDown, ArrowUp: setActiveIndex((i) => (i - 1 + options.length) % options.length)
ArrowUp ==
  /\ combo.mounted
  /\ combo' = Rendered([combo EXCEPT
                 !.activeIndex = JsRem(JsAdd(JsAdd(@, 0 - 1), combo.options),
                                       combo.options)])
  /\ UNCHANGED <<queueVars, call, search, retry>>

\* onKeyDown, Enter with activeIndex >= 0: handleSelect(options[activeIndex])
Enter ==
  /\ combo.mounted
  /\ combo.activeIndex # NaN /\ combo.activeIndex >= 0
  /\ combo' = [combo EXCEPT !.selected = combo.activeIndex, !.open = FALSE]
  /\ UNCHANGED <<queueVars, call, search, retry>>

\* onChange of the input: setOpen(true)
Typing ==
  /\ combo.mounted
  /\ combo' = [combo EXCEPT !.open = TRUE]
  /\ UNCHANGED <<queueVars, call, search, retry>>

\* Escape, or a mousedown outside the input: setOpen(false)
Dismiss ==
  /\ combo.mounted
  /\ combo' = [combo EXCEPT !.open = FALSE]
  /\ UNCHANGED <<queueVars, call, search, retry>>

------------------------------------------------------------------------------
(* A11yUploader: the commands *)

Null == <<>>

\* a limit on each selection, whatever the list holds
RemainPerBatch(n) == MAX_FILES

\* const remain = Math.max(0, MAX_FILES - next.length)
Remain(n) == Max(0, MAX_FILES - n)

\* const pick = arr.slice(0, remain)
Sliced(files, next) == SubSeq(files, 1, Min(Remain(Len(next)), Len(files)))

\* pick.filter((f) => !next.some((x) => isDuplicate(f, x.file)))
DupFiltered(files, next) ==
  LET fresh(f) == ~\E i \in DOMAIN next : isDuplicate(f, next[i].file)
  IN SelectSeq(Sliced(files, next), fresh)

\* the files of dupFiltered that validateFile accepts, and the others
Accepted(files, next) ==
  LET ok(f) == validateFile(f) = "null"
  IN SelectSeq(DupFiltered(files, next), ok)
Rejected(files, next) ==
  LET bad(f) == validateFile(f) # "null"
  IN SelectSeq(DupFiltered(files, next), bad)

\* toAdd: one item per accepted file, the first with the id after base
ToAdd(files, next, base) ==
  [k \in DOMAIN Accepted(files, next) |->
     NewItem(base + k, Accepted(files, next)[k])]

\* errors: file name and reason of each rejected file
Errors(files, next) ==
  [k \in DOMAIN Rejected(files, next) |->
     <<Rejected(files, next)[k].name, validateFile(Rejected(files, next)[k])>>]

\* pushFiles(files), from onDrop and onInputChange
pushFiles(files) ==
  LET accepted == Accepted(files, items)
      toAdd == ToAdd(files, items, nextId)
      errors == Errors(files, items)
  IN /\ items' = items \o toAdd
     /\ nextId' = nextId + Len(accepted)
     /\ alert' = IF Len(errors) > 0 THEN errors ELSE alert
     /\ effectPending' = TRUE
     /\ UNCHANGED <<running, transfers, intervals, timeouts, call, aside>>

\* the model's bound on what the caller asks for: the transfers started and
\* the items waiting to start
WithinBounds == Len(transfers) + Count(items', "queued") <= MaxStarts

Enqueue(files) ==
  /\ pushFiles(files)
  /\ queuedOrder' = QueuedAfter(queuedOrder, items, items')
  /\ WithinBounds

\* an updater that cancelled the items at the indices hit, giving mapped:
\* abort() rejected the transfers cs, whose catch and finally then run
Cancelled(mapped, cs) ==
  /\ items' = OnAborted(mapped, cs)
  /\ intervals' = ClearInterval(cs)
  /\ running' = Released(running, Cardinality(cs))
  /\ timeouts' = timeouts + Cardinality(cs)
  /\ effectPending' = TRUE
  /\ UNCHANGED <<alert, transfers, nextId, call, aside>>

cancelItem(id) ==
  LET hit == {i \in DOMAIN items : items[i].id = id}
  IN Cancelled([i \in DOMAIN items |->
                  IF i \in hit THEN CancelOne(items[i]) ELSE items[i]],
               AbortedBy(items, hit))

cancelAll ==
  Cancelled([i \in DOMAIN items |-> CancelAllOne(items[i])],
            AbortedBy(items, DOMAIN items))

retryItem(id) ==
  /\ items' = [i \in DOMAIN items |->
                 IF items[i].id = id THEN RetryOne(items[i]) ELSE items[i]]
  /\ effectPending' = TRUE
  /\ UNCHANGED <<alert, running, transfers, intervals, timeouts, nextId, call, aside>>

removeItem(id) ==
  LET kept(x) == x.id # id
  IN /\ items' = SelectSeq(items, kept)
     /\ effectPending' = TRUE
     /\ UNCHANGED <<alert, running, transfers, intervals, timeouts, nextId, call, aside>>

startAll ==
  /\ items' = [i \in DOMAIN items |-> StartAllOne(items[i])]
  /\ effectPending' = TRUE
  /\ UNCHANGED <<alert, running, transfers, intervals, timeouts, nextId, call, aside>>

\* the buttons: which item offers which command
CancelOffered(it) == it.status = "uploading" \/ it.status = "queued"
\* a retry button rendered for every item
RetryOfferedAlways(it) == TRUE
RetryOffered(it) == it.status = "error"

ClickCancel(id) ==
  /\ \E i \in DOMAIN items : items[i].id = id /\ CancelOffered(items[i])
  /\ cancelItem(id)
  /\ queuedOrder' = QueuedAfter(queuedOrder, items, items')

ClickRetry(id) ==
  /\ \E i \in DOMAIN items : items[i].id = id /\ RetryOffered(items[i])
  /\ retryItem(id)
  /\ queuedOrder' = QueuedAfter(queuedOrder, items, items')
  /\ WithinBounds

ClickRemove(id) ==
  /\ id \in Ids(items)
  /\ removeItem(id)
  /\ queuedOrder' = QueuedAfter(queuedOrder, items, items')

ClickStartAll ==
  /\ startAll
  /\ queuedOrder' = QueuedAfter(queuedOrder, items, items')
  /\ WithinBounds

ClickCancelAll ==
  /\ cancelAll
  /\ queuedOrder' = QueuedAfter(queuedOrder, items, items')

------------------------------------------------------------------------------
(* The specification *)

Init ==
  /\ items = <<>>
  /\ alert = Null
  /\ running = 0
  /\ transfers = <<>>
  /\ intervals = {}
  /\ timeouts = 0
  /\ effectPending = TRUE
  /\ nextId = 0
  /\ queuedOrder = <<>>
  /\ call = NoCall
  /\ search = Mounted
  /\ retry = NoRetry
  /\ combo = Closed

\* the caller's commands on single items and cancel-all, with at most maxIds
\* items ever created
CallerStep(maxIds) ==
  \/ \E n \in 1..MaxBatch : nextId + n <= maxIds /\ Enqueue(NextPhotos(n))
  \/ \E id \in 1..maxIds : ClickCancel(id)
  \/ \E id \in 1..maxIds : ClickRetry(id)
  \/ \E id \in 1..maxIds : ClickRemove(id)
  \/ ClickCancelAll

\* the steps of the scheduler and the transfers, with timer ticks at the
\* instants of clock
SystemStep(clock) ==
  \/ EffectPump
  \/ TimeoutPump
  \/ \E c \in 1..MaxStarts, t \in clock, fail \in BOOLEAN : Tick(c, t, fail)

Next == CallerStep(MaxIds) \/ ClickStartAll \/ SystemStep(Clock)
Spec == Init /\ [][Next]_vars

FineNext == CallerStep(MaxFineIds) \/ ClickStartAll \/ SystemStep(FineClock)
FineSpec == Init /\ [][FineNext]_vars

\* The browser runs every task it has queued: the effect of a render, an
\* expired timeout, the next tick of a live interval timer.  The caller owes
\* nothing.
Fairness(clock) ==
  /\ WF_vars(EffectPump)
  /\ WF_vars(TimeoutPump)
  /\ \A c \in 1..MaxStarts :
       WF_vars(\E t \in clock, fail \in BOOLEAN : Tick(c, t, fail))

\* the queue under fair scheduling, with a caller that re-queues by retry
LiveNext == CallerStep(MaxIds) \/ SystemStep(Clock)
LiveSpec == Init /\ [][LiveNext]_vars /\ Fairness(Clock)

\* file picking on its own: drops and selections of any files, and removals,
\* with no transfer started in between
Pick(files) ==
  /\ pushFiles(files)
  /\ queuedOrder' = QueuedAfter(queuedOrder, items, items')
  /\ nextId' <= MaxPickIds
PickNext ==
  \/ \E files \in PickBatches : Pick(files)
  \/ \E id \in 1..MaxPickIds : ClickRemove(id)
PickSpec == Init /\ [][PickNext]_vars

\* one invocation of mockUpload, aborted by its caller at any moment or never
UploadNext ==
  \/ \E sig \in Signals, total \in CallTotalMs, early \in TimerBeforeInit :
       Invoke(sig, total, early)
  \/ AbortCall
  \/ \E t \in CallClock, fail \in BOOLEAN : CallTick(t, fail)
UploadSpec == Init /\ [][UploadNext]_vars

\* useSearch under any sequence of query and enabled changes and any order of
\* the fetcher's answers
SearchNext ==
  \/ \E q \in Queries, en \in BOOLEAN : Render(q, en)
  \/ \E c \in 1..MaxRequests, ok \in BOOLEAN : Settle(c, ok)
SearchSpec == Init /\ [][SearchNext]_vars

\* one call of withRetry with any options and any behaviour of fn
RetryNext ==
  \/ \E m \in 0..MaxAttempts, policy \in Policies, onRetry \in BOOLEAN,
         backoff \in {"exponential", "linear"} :
       CallWithRetry(m, policy, onRetry, backoff)
  \/ FnResolves
  \/ \E e \in Thrown : FnRejects(e)
  \/ DelayPasses
RetrySpec == Init /\ [][RetryNext]_vars

\* the Combobox under any key presses and any changes of its options
ComboNext ==
  \/ \E n \in 0..MaxOptions : OptionsChange(n)
  \/ ArrowDown
  \/ ArrowUp
  \/ Enter
  \/ Typing
  \/ Dismiss
ComboSpec == Init /\ [][ComboNext]_vars

TypeOK ==
  /\ running \in 0..CONCURRENCY
  /\ timeouts \in 0..MaxStarts
  /\ Len(transfers) <= MaxStarts
  /\ \A i \in DOMAIN items : items[i].status \in UploadStatus

------------------------------------------------------------------------------
(* Properties of the upload queue *)

\* a step of the scheduler or of a transfer, none a command of the caller
SystemNext == SystemStep(FineClock)

\* the live transfer of item id, if any
InFlight(id) == \E r \in intervals : transfers[r.ctrl] = id

\* C1: in every reachable state the number of items whose status is uploading
\* is at most CONCURRENCY.
ConcurrencyBound == Count(items, "uploading") <= CONCURRENCY

\* all slots taken by a pump while another item waits in the queue
ConcurrencyBoundWitness ==
  /\ Count(items, "uploading") = CONCURRENCY
  /\ Count(items, "queued") > 0
  /\ running = CONCURRENCY

\* C2: a cancel or cancel-all issued while an item is uploading and its
\* transfer has not settled leaves the item canceled and the transfer settled,
\* with its timer cleared; and a transfer that has not settled belongs to an
\* item that is uploading with that transfer's controller (or was removed), so
\* no callback of the cancelled attempt can make the item success or error.
CancelPrecedence ==
  /\ [][\A i \in DOMAIN items :
          (/\ items[i].status = "uploading"
           /\ Pending(items[i].abortCtrl)
           /\ (ClickCancel(items[i].id) \/ ClickCancelAll))
          => /\ StatusOf(items', items[i].id) = "canceled"
             /\ ItemOf(items', items[i].id).error = Undefined
             /\ ~\E r \in intervals' : r.ctrl = items[i].abortCtrl]_vars
  /\ [](\A r \in intervals :
          transfers[r.ctrl] \in Ids(items)
          => /\ ItemOf(items, transfers[r.ctrl]).status = "uploading"
             /\ ItemOf(items, transfers[r.ctrl]).abortCtrl = r.ctrl)

\* an item cancelled half way through its transfer: only a cancel of an
\* uploading item leaves the progress of the tick half way on a canceled item
CancelPrecedenceWitness ==
  \E i \in DOMAIN items :
    /\ items[i].status = "canceled"
    /\ items[i].progress = Pct(400, 800)
    /\ items[i].abortCtrl # NoCtrl
    /\ ~Pending(items[i].abortCtrl)
    /\ items[i].error = Undefined

\* C3: ids are unique in the collection, so an item has one status; an item
\* whose status is success keeps it in every step unless it is removed; an
\* item whose status is canceled leaves canceled only for queued, and only in
\* a start-all (or retry) step, unless it is removed.
TerminalExclusive ==
  /\ [](\A i, j \in DOMAIN items : items[i].id = items[j].id => i = j)
  /\ [][\A i \in DOMAIN items :
          LET id == items[i].id
          IN /\ items[i].status = "success"
                => (id \notin Ids(items') \/ StatusOf(items', id) = "success")
             /\ (items[i].status = "canceled" /\ id \in Ids(items')
                   /\ StatusOf(items', id) # "canceled")
                => /\ StatusOf(items', id) = "queued"
                   /\ (ClickStartAll \/ ClickRetry(id))]_vars

\* a success item that a cancel-all has passed over: its neighbour, started
\* after it, is canceled, and nothing is queued or uploading
TerminalExclusiveWitness ==
  \E i, j \in DOMAIN items :
    /\ items[i].status = "success"
    /\ items[j].status = "canceled"
    /\ items[j].abortCtrl > items[i].abortCtrl
    /\ Count(items, "queued") + Count(items, "uploading") = 0

\* C4: once the caller issues no further command, every queued item is
\* admitted and every transfer settles: from some point on every item is
\* success, error or canceled.  No step of the caller is needed for it.
QueuedItemsFinish ==
  <>[][SystemNext]_vars
    => <>[](\A i \in DOMAIN items :
              items[i].status \in {"success", "error", "canceled"})

\* an item admitted by a pump that followed a completion: it was created after
\* all slots were taken, and its transfer has settled
QueuedItemsFinishWitness ==
  \E i \in DOMAIN items :
    /\ items[i].abortCtrl > CONCURRENCY
    /\ items[i].status \in {"success", "error"}
    /\ Len(transfers) = Len(items)

\* C5 as stated: of two queued items, the one that became queued first is
\* admitted no later than the other, also when it became queued by a retry.
FifoByQueueTime ==
  [][\A a, b \in DOMAIN queuedOrder :
       (a < b /\ StatusOf(items', queuedOrder[b]) = "uploading")
       => StatusOf(items', queuedOrder[a]) = "uploading"]_vars

\* C5 as amended: of two queued items, the one that comes first in the
\* collection is admitted no later than the other; a re-queued item keeps its
\* place in the collection.
FifoByListOrder ==
  [][\A i, j \in DOMAIN items :
       (/\ i < j
        /\ items[i].status = "queued"
        /\ items[j].status = "queued"
        /\ StatusOf(items', items[j].id) = "uploading")
       => StatusOf(items', items[i].id) = "uploading"]_vars

\* a pump with one free slot took the earlier of two queued items: the item
\* admitted last is uploading, and a later item of the list is still queued
FifoByListOrderWitness ==
  \E i, j \in DOMAIN items :
    /\ i < j
    /\ items[i].status = "uploading"
    /\ items[i].abortCtrl = Len(transfers)
    /\ items[j].status = "queued"
    /\ running = CONCURRENCY

\* C6: a second pump right after a pump changes no item, starts no transfer
\* and leaves the counter alone; and a pump with no free slot does nothing.
PumpIdempotent ==
  LET n == Len(transfers)
      first == Pumped(items, running, n)
      second == Pumped(first.next, running + first.started, n + first.started)
  IN /\ second.started = 0
     /\ second.next = first.next
     /\ running >= CONCURRENCY => (first.started = 0 /\ first.next = items)

\* a pump has admitted every queued item, slots are still free and the
\* effect is due to call pump again
PumpIdempotentWitness ==
  /\ effectPending
  /\ Count(items, "uploading") > 0
  /\ Count(items, "queued") = 0
  /\ running < CONCURRENCY
  /\ running = Count(items, "uploading")

\* C7: retry of an error item leaves it queued with progress 0 and no error
\* message, which is what pump admits; and the last tick of a transfer that
\* does not fail leaves its item success with progress 100 and a serverUrl.
RetryResets ==
  /\ [][\A i \in DOMAIN items :
          (items[i].status = "error" /\ ClickRetry(items[i].id))
          => LET x == ItemOf(items', items[i].id)
             IN /\ x.status = "queued"
                /\ x.progress = 0
                /\ x.error = Undefined
                /\ Startable(x)]_vars
  /\ [][\A r \in intervals, t \in FineClock :
          (/\ t >= r.totalMs
           /\ transfers[r.ctrl] \in Ids(items)
           /\ Tick(r.ctrl, t, FALSE))
          => LET x == ItemOf(items', transfers[r.ctrl])
             IN /\ x.status = "success"
                /\ x.progress = 100
                /\ x.serverUrl # NoUrl]_vars

\* an item that is success on its second transfer
RetryResetsWitness ==
  \E i \in DOMAIN items :
    /\ items[i].status = "success"
    /\ items[i].serverUrl = items[i].abortCtrl
    /\ \E c \in 1..(items[i].abortCtrl - 1) : transfers[c] = items[i].id

\* C8: cancel of a queued item leaves it canceled and starts nothing, and
\* changes neither its progress nor any transfer; a transfer is only ever
\* started for an item that was queued; a canceled item has no transfer in
\* flight.
QueuedCancelNeverStarts ==
  /\ [][\A i \in DOMAIN items :
          (items[i].status = "queued" /\ ClickCancel(items[i].id))
          => /\ StatusOf(items', items[i].id) = "canceled"
             /\ ItemOf(items', items[i].id).progress = items[i].progress
             /\ UNCHANGED <<transfers, intervals, running>>]_vars
  /\ [][\A c \in (DOMAIN transfers') \ (DOMAIN transfers) :
          StatusOf(items, transfers'[c]) = "queued"]_vars
  /\ [](\A i \in DOMAIN items :
          items[i].status = "canceled" => ~InFlight(items[i].id))

\* an item cancelled before any transfer was started for it
QueuedCancelNeverStartsWitness ==
  \E i \in DOMAIN items :
    /\ items[i].status = "canceled"
    /\ items[i].abortCtrl = NoCtrl
    /\ items[i].progress = 0
    /\ Len(transfers) > 0

\* C9: an error item becomes queued or uploading only in a retry or start-all
\* step; and with an error item in the collection, a queued item and a free
\* slot, a pump is due and admits a queued item.
NoAutomaticRetry ==
  /\ [][\A i \in DOMAIN items :
          (/\ items[i].status = "error"
           /\ StatusOf(items', items[i].id) \in {"queued", "uploading"})
          => (ClickRetry(items[i].id) \/ ClickStartAll)]_vars
  /\ []((/\ Count(items, "error") > 0
         /\ Count(items, "queued") > 0
         /\ running < CONCURRENCY)
        => /\ effectPending
           /\ Pumped(items, running, Len(transfers)).started > 0)

\* an item admitted after another one failed: the failed item is still error
\* and the slot it gave back went to the fourth transfer
NoAutomaticRetryWitness ==
  \E i, j \in DOMAIN items :
    /\ items[i].status = "error"
    /\ items[j].status = "uploading"
    /\ items[j].abortCtrl > CONCURRENCY
    /\ running = CONCURRENCY

\* C10: an item carries an error message only if its status is error.
ErrorOnlyWhenError ==
  \A i \in DOMAIN items :
    items[i].error # Undefined => items[i].status = "error"

\* C11: an item holds a cancellation handle (abortCtrl) only while its status
\* is uploading, and then the one created for its current attempt; an item
\* that is success, error, canceled or queued holds none.
HandleOnlyWhileUploading ==
  \A i \in DOMAIN items :
    IF items[i].status = "uploading"
    THEN /\ items[i].abortCtrl # NoCtrl
         /\ transfers[items[i].abortCtrl] = items[i].id
         /\ \A c \in DOMAIN transfers :
              transfers[c] = items[i].id => c <= items[i].abortCtrl
    ELSE items[i].abortCtrl = NoCtrl

\* C12: an item has a serverUrl only if its status is success, and an item
\* whose status is success has a serverUrl and progress 100.
RemoteReferenceOnlyOnSuccess ==
  \A i \in DOMAIN items :
    /\ items[i].serverUrl # NoUrl => items[i].status = "success"
    /\ items[i].status = "success"
       => (items[i].serverUrl # NoUrl /\ items[i].progress = 100)

\* a success item that a start-all has passed over: its neighbour, started
\* before, is queued again
RemoteReferenceOnlyOnSuccessWitness ==
  \E i, j \in DOMAIN items :
    /\ items[i].status = "success"
    /\ items[i].serverUrl = items[i].abortCtrl
    /\ items[j].status = "queued"
    /\ items[j].abortCtrl # NoCtrl
    /\ items[j].serverUrl = NoUrl

\* C13: progress is an integer in 0..100; while an item stays uploading on the
\* same attempt its progress never decreases; an item that is re-queued from
\* error or canceled has progress 0.
ProgressMonotone ==
  /\ [](\A i \in DOMAIN items : items[i].progress \in 0..100)
  /\ [][\A i \in DOMAIN items :
          (/\ items[i].status = "uploading"
           /\ StatusOf(items', items[i].id) = "uploading"
           /\ ItemOf(items', items[i].id).abortCtrl = items[i].abortCtrl)
          => ItemOf(items', items[i].id).progress >= items[i].progress]_vars
  /\ [][\A i \in DOMAIN items :
          (/\ items[i].status \in {"error", "canceled"}
           /\ StatusOf(items', items[i].id) = "queued")
          => ItemOf(items', items[i].id).progress = 0]_vars

\* an item half way through its second attempt
ProgressMonotoneWitness ==
  \E i \in DOMAIN items :
    /\ items[i].status = "uploading"
    /\ items[i].progress = Pct(400, 800)
    /\ \E c \in 1..(items[i].abortCtrl - 1) : transfers[c] = items[i].id

\* C14: once the signal of a mockUpload invocation is aborted while its
\* promise is not settled, during the transfer or before the call, onProgress
\* is not called again and the promise is rejected with AbortError: it is
\* neither resolved nor rejected with another error.
AbortSettlesCancelled ==
  call.abortedPending => (call.outcome = "AbortError" /\ ~call.late)

\* C15: retry acts on error items only: an item becomes queued again only
\* from error or canceled; no retry step is taken on an item that is queued,
\* uploading or success; and no item has two transfers in flight.
RetryOnlyWhenFailed ==
  /\ [][\A i \in DOMAIN items :
          (/\ items[i].status # "queued"
           /\ StatusOf(items', items[i].id) = "queued")
          => items[i].status \in {"error", "canceled"}]_vars
  /\ [][\A i \in DOMAIN items :
          items[i].status \in {"queued", "uploading", "success"}
          => ~ClickRetry(items[i].id)]_vars
  /\ [](\A r1, r2 \in intervals :
          transfers[r1.ctrl] = transfers[r2.ctrl] => r1.ctrl = r2.ctrl)

\* a retried item on its second transfer, the first one settled
RetryOnlyWhenFailedWitness ==
  \E i \in DOMAIN items :
    /\ items[i].status = "uploading"
    /\ InFlight(items[i].id)
    /\ \E c \in 1..(items[i].abortCtrl - 1) :
         transfers[c] = items[i].id /\ ~Pending(c)

\* C16: an item whose status is uploading and whose transfer is in flight
\* stays in the collection; remove takes out only items that are queued,
\* success, error or canceled.
UploadingNotRemoved ==
  [][\A i \in DOMAIN items :
       (items[i].status = "uploading" /\ InFlight(items[i].id))
       => items[i].id \in Ids(items')]_vars

\* C18: an item leaves the collection only in a remove step; every other step
\* keeps every item at its position with its id and file, and only appends;
\* an error or canceled item is re-queued by start-all into what pump admits,
\* and an error item offers retry.
NoSilentLoss ==
  /\ [][\/ \E id \in Ids(items) : ClickRemove(id)
        \/ /\ Len(items') >= Len(items)
           /\ \A i \in DOMAIN items :
                /\ items'[i].id = items[i].id
                /\ items'[i].file = items[i].file]_vars
  /\ [](\A i \in DOMAIN items :
          items[i].status \in {"error", "canceled"}
          => Startable(StartAllOne(items[i])))
  /\ [](\A i \in DOMAIN items :
          items[i].status = "error" => RetryOffered(items[i]))

\* a failed and a cancelled item still listed after another item was removed
\* and a later one was added
NoSilentLossWitness ==
  \E i, j, k \in DOMAIN items :
    /\ items[i].status = "error"
    /\ items[j].status = "canceled"
    /\ items[k].id = nextId
    /\ items[k].status = "queued"
    /\ Len(items) < nextId

\* C17: every item of the collection passed validateFile; in every state an
\* enqueue of any batch reports each file of the batch that fails validation
\* with an error message, and creates its items queued with progress 0 for
\* valid files only.
EnqueueValidates ==
  /\ \A i \in DOMAIN items : validateFile(items[i].file) = "null"
  /\ \A files \in PickBatches :
       /\ \A k \in DOMAIN files :
            validateFile(files[k]) # "null"
            => \E e \in DOMAIN Errors(files, items) :
                 Errors(files, items)[e] = <<files[k].name, validateFile(files[k])>>
       /\ \A k \in DOMAIN ToAdd(files, items, nextId) :
            LET it == ToAdd(files, items, nextId)[k]
            IN /\ validateFile(it.file) = "null"
               /\ it.status = "queued"
               /\ it.progress = 0

\* C19: the collection never holds more than MAX_FILES items.
CollectionWithinLimit == Len(items) <= MAX_FILES

\* a full list, filled up again after a removal
CollectionWithinLimitWitness ==
  /\ Len(items) = MAX_FILES
  /\ nextId > MAX_FILES

\* C20: no two items of the collection refer to duplicate files (same name,
\* size and lastModified).
NoDuplicateItems ==
  \A i, j \in DOMAIN items :
    isDuplicate(items[i].file, items[j].file) => i = j

\* nothing is scheduled: no effect is due and no deferred pump is pending
\* (updaters and completion callbacks run within the step that issues them)
Quiescent == ~effectPending /\ timeouts = 0

\* C23: in every quiescent state no item is queued while fewer than
\* CONCURRENCY transfers are in flight; whenever an item is queued and a slot
\* is free, a pump is due and that pump admits a queued item; and under fair
\* scheduling a free slot does not stay unused while an item is queued, with
\* no caller command needed for it.
SlotRefill ==
  /\ [](Quiescent
        => ~(Count(items, "queued") > 0 /\ Cardinality(intervals) < CONCURRENCY))
  /\ []((Count(items, "queued") > 0 /\ running < CONCURRENCY)
        => /\ effectPending \/ timeouts > 0
           /\ Pumped(items, running, Len(transfers)).started > 0)
  /\ (Count(items, "queued") > 0 /\ running < CONCURRENCY)
       ~> (Count(items, "queued") = 0 \/ running = CONCURRENCY)

\* the fourth item was admitted when the first one succeeded, while the
\* second and third are still uploading
SlotRefillWitness ==
  \E i, j, k, l \in DOMAIN items :
    /\ i < j /\ j < k /\ k < l
    /\ items[i].status = "success"
    /\ items[j].status = "uploading" /\ items[j].abortCtrl < items[l].abortCtrl
    /\ items[k].status = "uploading" /\ items[k].abortCtrl < items[l].abortCtrl
    /\ items[l].status = "uploading" /\ items[l].abortCtrl = CONCURRENCY + 1
    /\ running = CONCURRENCY

\* C24: a pump admits exactly the first k queued items in collection order,
\* k = min(number of queued items, CONCURRENCY - running): each of them
\* becomes uploading with a controller not used before and one new transfer,
\* and nothing else changes; a retry leaves every item at its position.
PumpAdmitsFirstQueued ==
  /\ [][(EffectPump \/ TimeoutPump)
        => LET queued == {i \in DOMAIN items : items[i].status = "queued"}
               k == Min(Cardinality(queued), Max(0, CONCURRENCY - running))
               before(i) == Cardinality({j \in queued : j < i})
               firstK == {i \in queued : before(i) < k}
           IN /\ Len(items') = Len(items)
              /\ \A i \in DOMAIN items :
                   items'[i] =
                     IF i \in firstK
                     THEN [items[i] EXCEPT
                             !.status = "uploading",
                             !.abortCtrl = Len(transfers) + before(i) + 1]
                     ELSE items[i]
              /\ Len(transfers') = Len(transfers) + k
              /\ running' = running + k
              /\ Cardinality(intervals') = Cardinality(intervals) + k
              /\ \A i \in firstK :
                   /\ transfers'[items'[i].abortCtrl] = items[i].id
                   /\ \E r \in intervals' : r.ctrl = items'[i].abortCtrl
                   /\ ~\E r \in intervals : r.ctrl = items'[i].abortCtrl]_vars
  /\ [][\A id \in Ids(items) :
          ClickRetry(id)
          => /\ Len(items') = Len(items)
             /\ \A i \in DOMAIN items : items'[i].id = items[i].id]_vars

\* a retried item admitted at its place, in one pump with a later item and
\* ahead of it
PumpAdmitsFirstQueuedWitness ==
  \E i, j \in DOMAIN items :
    /\ i < j
    /\ items[i].status = "uploading"
    /\ items[j].status = "uploading"
    /\ items[j].abortCtrl = items[i].abortCtrl + 1
    /\ items[j].progress = 0
    /\ \E c \in 1..(items[i].abortCtrl - 1) : transfers[c] = items[i].id

\* C25: a cancel-all step leaves every success item as it is, leaves every
\* other item canceled with only its status changed, settles the transfer of
\* every item that was uploading, and keeps the list: same length, same item
\* at every position.
CancelAllFrame ==
  [][ClickCancelAll
     => /\ Len(items') = Len(items)
        /\ \A i \in DOMAIN items :
             /\ items'[i].id = items[i].id
             /\ IF items[i].status = "success"
                THEN items'[i] = items[i]
                ELSE items'[i] = [items[i] EXCEPT !.status = "canceled"]
             /\ items[i].status = "uploading"
                => ~\E r \in intervals' : r.ctrl = items[i].abortCtrl]_vars

\* after a cancel-all: a success item, an item cancelled while uploading and
\* one cancelled while queued, no transfer left
CancelAllFrameWitness ==
  \E i, j, k \in DOMAIN items :
    /\ items[i].status = "success"
    /\ items[j].status = "canceled" /\ items[j].abortCtrl # NoCtrl
    /\ items[k].status = "canceled" /\ items[k].abortCtrl = NoCtrl
    /\ Count(items, "success") + Count(items, "canceled") = Len(items)
    /\ intervals = {}

\* C26: running equals the number of transfers started and not yet settled
\* and lies in 0..CONCURRENCY; every step adds one to it per transfer started
\* and takes one off per transfer settled.
RunningCountsTransfers ==
  /\ [](running = Cardinality(intervals) /\ running \in 0..CONCURRENCY)
  /\ [][running' = running + (Len(transfers') - Len(transfers))
                   - Cardinality({r.ctrl : r \in intervals}
                                   \ {r.ctrl : r \in intervals'})]_vars

\* two of four transfers have settled, two are counted
RunningCountsTransfersWitness ==
  /\ Len(transfers) = MaxStarts
  /\ running = 2
  /\ Cardinality(intervals) = 2
  /\ timeouts = 0

\* C27: no item has two transfers in flight; a transfer in flight belongs to
\* the current attempt of its item (the item is uploading and holds that
\* transfer's controller); so a callback of a transfer acts on its item only
\* while the item is on that attempt, never after a re-queue or re-admission.
OneAttemptAtATime ==
  /\ [](\A r1, r2 \in intervals :
          transfers[r1.ctrl] = transfers[r2.ctrl] => r1 = r2)
  /\ [](\A r \in intervals :
          transfers[r.ctrl] \in Ids(items)
          => /\ ItemOf(items, transfers[r.ctrl]).status = "uploading"
             /\ ItemOf(items, transfers[r.ctrl]).abortCtrl = r.ctrl)
  /\ [][\A c \in DOMAIN transfers, t \in FineClock, fail \in BOOLEAN :
          (Tick(c, t, fail) /\ transfers[c] \in Ids(items))
          => /\ ItemOf(items, transfers[c]).abortCtrl = c
             /\ \A d \in DOMAIN transfers : transfers[d] = transfers[c] => d <= c]_vars

\* an item re-admitted for a second attempt that has reported nothing yet,
\* the first attempt settled and its timer cleared
OneAttemptAtATimeWitness ==
  \E i \in DOMAIN items :
    /\ items[i].status = "uploading"
    /\ items[i].progress = 0
    /\ items[i].abortCtrl > 1
    /\ Pending(items[i].abortCtrl)
    /\ \E c \in 1..(items[i].abortCtrl - 1) :
         transfers[c] = items[i].id /\ ~Pending(c)

\* a transfer whose item has been removed from the collection
Orphan(c) == Pending(c) /\ transfers[c] \notin Ids(items)

\* C28: removing an uploading item leaves its transfer in flight and counted
\* in running, and defers no pump; a tick of a transfer whose item was removed
\* changes no item; the slot is released and a pump deferred exactly when that
\* transfer settles.
RemoveKeepsTransfer ==
  /\ [][\A i \in DOMAIN items :
          (/\ items[i].status = "uploading"
           /\ Pending(items[i].abortCtrl)
           /\ ClickRemove(items[i].id))
          => /\ \E r \in intervals' : r.ctrl = items[i].abortCtrl
             /\ running' = running
             /\ timeouts' = timeouts]_vars
  /\ [][\A c \in DOMAIN transfers, t \in FineClock, fail \in BOOLEAN :
          (Orphan(c) /\ Tick(c, t, fail))
          => /\ items' = items
             /\ IF t >= TimerOf(c).totalMs
                THEN /\ running' = running - 1
                     /\ timeouts' = timeouts + 1
                     /\ ~\E r \in intervals' : r.ctrl = c
                ELSE /\ running' = running
                     /\ timeouts' = timeouts
                     /\ \E r \in intervals' : r.ctrl = c]_vars

\* the transfer of a removed item still holds a slot while an item waits
RemoveKeepsTransferWitness ==
  /\ \E c \in DOMAIN transfers : Orphan(c)
  /\ running = CONCURRENCY
  /\ Count(items, "uploading") = CONCURRENCY - 1
  /\ Count(items, "queued") > 0

\* C21: once a later fetcher call has been issued, the answer of an earlier
\* call changes neither data nor error.
NoStaleResponse ==
  [][\A r \in search.requests :
       (/\ r.ctrl < search.issued
        /\ ~\E s \in search'.requests : s.ctrl = r.ctrl)
       => /\ search'.data = search.data
          /\ search'.error = search.error]_vars

\* C29: while a fetcher call that has not been aborted (the call for the
\* current query) is unsettled, loading is true; loading turns false only in
\* a step in which the latest call settles or the query becomes ineligible.
LoadingWhileInFlight ==
  /\ []((\E r \in search.requests : ~r.aborted) => search.loading)
  /\ [][(search.loading /\ ~search'.loading)
        => \/ Ineligible(search'.query, search'.enabled)
           \/ /\ \E r \in search.requests : r.ctrl = search.issued
              /\ ~\E r \in search'.requests : r.ctrl = search.issued]_vars

\* C22: withRetry calls fn at most maxAttempts times; when a call succeeds it
\* resolves and calls no more; when it rejects, it rejects with the
\* normalized error of the last attempt, after maxAttempts calls or after
\* shouldRetry said no; onRetry has been called once per failed attempt that
\* was retried, with that attempt's number.
RetryContract ==
  /\ [](/\ retry.calls <= retry.maxAttempts
        /\ retry.phase = "rejected"
           => /\ retry.settled.class = "BaseError"
              /\ retry.settled = retry.lastError
              /\ \/ retry.calls = retry.maxAttempts
                 \/ ~shouldRetry(retry.policy, retry.lastError, retry.attempt)
        /\ retry.phase \in {"calling", "resolved", "rejected"}
           => /\ retry.calls = retry.attempt
              /\ retry.onRetry => retry.retried = [k \in 1..(retry.attempt - 1) |-> k]
              /\ ~retry.onRetry => retry.retried = <<>>)
  /\ [][retry.phase \in {"resolved", "rejected"} => retry' = retry]_vars

\* C30: the active index is -1 or an index of the current options list.
ActiveIndexValid ==
  \/ combo.activeIndex = NoneActive
  \/ combo.activeIndex \in 0..(combo.options - 1)

====
